---------------------------- MODULE Spec2Model ----------------------------
(***************************************************************************)
(* QClickEdit: a label that turns into a Qt input control when activated   *)
(* and back into a label when the defocus sweep finds it away from the     *)
(* pointer.  The model follows src/QClickEdit.py.                          *)
(*                                                                         *)
(* Python values are tagged records [k |-> type, v |-> payload].  The Qt   *)
(* controls (QSpinBox, QLineEdit, QTimeEdit, QComboBox) are modelled by    *)
(* their documented behaviour for a default-constructed control.           *)
(* Every top-level window is taken to be shown, so isVisible() of an       *)
(* input control is "not explicitly hidden".                               *)
(***************************************************************************)
EXTENDS Integers, Sequences, FiniteSets, TLC

(* ------------------------------ bounds -------------------------------- *)
MaxWidgets == 2
MaxWindows == 1
MaxItems == 2

(* ----------------------- Qt control defaults -------------------------- *)
SpinMin == 0
SpinMax == 99
LineMaxLength == 32767

(* --------------------------- Python values ---------------------------- *)
PyInt(n) == [k |-> "int", v |-> n]
PyS(s) == [k |-> "str", v |-> s]
PyFalse == [k |-> "bool", v |-> FALSE]
PyTrue == [k |-> "bool", v |-> TRUE]
PyNone == [k |-> "none", v |-> 0]
PyList(seq) == [k |-> "list", v |-> seq]
QTimeOf(h, m, s) == [k |-> "qtime", v |-> <<h, m, s>>]
DTimeOf(h, m, s) == [k |-> "dtime", v |-> <<h, m, s>>]
Midnight == QTimeOf(0, 0, 0)

IsStr(x) == x.k = "str"
IsFalse(x) == x.k = "bool" /\ x.v = FALSE
Truthy(x) ==
    CASE x.k = "str" -> x.v # ""
      [] x.k = "bool" -> x.v
      [] x.k = "int" -> x.v # 0
      [] x.k = "list" -> x.v # <<>>
      [] x.k = "none" -> FALSE
      [] OTHER -> TRUE

Pad2(n) == IF n < 10 THEN "0" \o ToString(n) ELSE ToString(n)

(* str(x) of Python, for the value types the model draws *)
PyStr(x) ==
    CASE x.k = "int" -> ToString(x.v)
      [] x.k = "str" -> x.v
      [] x.k = "bool" -> IF x.v THEN "True" ELSE "False"
      [] x.k = "none" -> "None"
      [] x.k = "qtime" -> "PySide2.QtCore.QTime(" \o ToString(x.v[1]) \o ", "
                          \o ToString(x.v[2]) \o ", " \o ToString(x.v[3]) \o ", 0)"
      [] x.k = "dtime" -> Pad2(x.v[1]) \o ":" \o Pad2(x.v[2]) \o ":" \o Pad2(x.v[3])
      [] OTHER -> "<object>"

(* QTime.toString(format) for the tokens h hh H HH m mm s ss a ap A AP *)
At(f, i, n) == IF i + n - 1 <= Len(f) THEN SubSeq(f, i, i + n - 1) ELSE ""

HasAmPm(f) == \E i \in 1..Len(f) : At(f, i, 1) \in {"a", "A"}

Hour12(h) == IF h % 12 = 0 THEN 12 ELSE h % 12

RECURSIVE RenderFrom(_, _, _)
RenderFrom(t, f, i) ==
    IF i > Len(f) THEN ""
    ELSE LET hr == IF HasAmPm(f) THEN Hour12(t[1]) ELSE t[1]
         IN  CASE At(f, i, 2) = "hh" -> Pad2(hr) \o RenderFrom(t, f, i + 2)
               [] At(f, i, 2) = "HH" -> Pad2(t[1]) \o RenderFrom(t, f, i + 2)
               [] At(f, i, 2) = "mm" -> Pad2(t[2]) \o RenderFrom(t, f, i + 2)
               [] At(f, i, 2) = "ss" -> Pad2(t[3]) \o RenderFrom(t, f, i + 2)
               [] At(f, i, 2) = "ap" ->
                     (IF t[1] < 12 THEN "am" ELSE "pm") \o RenderFrom(t, f, i + 2)
               [] At(f, i, 2) = "AP" ->
                     (IF t[1] < 12 THEN "AM" ELSE "PM") \o RenderFrom(t, f, i + 2)
               [] OTHER ->
                     CASE At(f, i, 1) = "h" -> ToString(hr) \o RenderFrom(t, f, i + 1)
                       [] At(f, i, 1) = "H" -> ToString(t[1]) \o RenderFrom(t, f, i + 1)
                       [] At(f, i, 1) = "m" -> ToString(t[2]) \o RenderFrom(t, f, i + 1)
                       [] At(f, i, 1) = "s" -> ToString(t[3]) \o RenderFrom(t, f, i + 1)
                       [] At(f, i, 1) = "a" ->
                             (IF t[1] < 12 THEN "am" ELSE "pm") \o RenderFrom(t, f, i + 1)
                       [] At(f, i, 1) = "A" ->
                             (IF t[1] < 12 THEN "AM" ELSE "PM") \o RenderFrom(t, f, i + 1)
                       [] OTHER -> At(f, i, 1) \o RenderFrom(t, f, i + 1)

TimeToString(qt, f) == RenderFrom(qt.v, f, 1)

DefaultTimeFormat == "h:mm:ss a"


(* ------------------------- one widget's state ------------------------- *)
(* st: "none" not yet constructed, "live" constructed, "half" __init__     *)
(* raised after the widget was registered, "dead" destroyed.               *)
(* parent: 0 while the widget has no parent (it is a top-level widget),    *)
(* else the window it was added to.                                        *)
(* textHidden / inputHidden: the hidden flag of self.text / input_widget.  *)
(* label: self.text.text(); ival, sval, tval, items/idx: the Qt control's  *)
(* value; fmt: self._display_format; cur: self._current_value.             *)
Blank ==
    [st |-> "none", kind |-> "none", parent |-> 0,
     textHidden |-> TRUE, inputHidden |-> TRUE,
     label |-> "", suffix |-> PyFalse,
     ival |-> 0, sval |-> "", tval |-> Midnight, fmt |-> "",
     cur |-> PyNone, items |-> <<>>, idx |-> -1]

Dead == [Blank EXCEPT !.st = "dead"]

Ok(r) == [r |-> r, err |-> "none"]
Raise(r, e) == [r |-> r, err |-> e]

AddSuffix(r, current_value) ==
    IF Truthy(r.suffix)
    THEN PyStr(current_value) \o " " \o r.suffix.v
    ELSE PyStr(current_value)

ShowInputField(r) == [r EXCEPT !.textHidden = TRUE, !.inputHidden = FALSE]

(* faulty variant: the input control is hidden, the label is not shown *)
ShowTextHideOnly(r) == [r EXCEPT !.inputHidden = TRUE]

ShowText(r) == [r EXCEPT !.inputHidden = TRUE, !.textHidden = FALSE]

(* ------------------------------ QSpinBox ------------------------------ *)
SpinUpdateCurrentValue(r) == [r EXCEPT !.label = AddSuffix(r, PyInt(r.ival))]

Clamp(n) == IF n < SpinMin THEN SpinMin ELSE IF n > SpinMax THEN SpinMax ELSE n

(* Qt's QSpinBox.setValue: clamps to the range, valueChanged only on change *)
SpinBoxSetValue(r, n) ==
    IF Clamp(n) = r.ival THEN r
    ELSE SpinUpdateCurrentValue([r EXCEPT !.ival = Clamp(n)])

IntOf(x) == IF x.k = "bool" THEN (IF x.v THEN 1 ELSE 0) ELSE x.v

(* faulty variant: the value is shown but never handed to the spin box *)
SpinSetValueLabelOnly(r, value) == Ok([r EXCEPT !.label = AddSuffix(r, value)])

SpinSetValue(r, value) ==
    LET r1 == [r EXCEPT !.label = AddSuffix(r, value)]
    IN  IF value.k \notin {"int", "bool"} THEN Raise(r1, "TypeError")
        ELSE Ok(SpinBoxSetValue(r1, IntOf(value)))

(* ------------------------------ QLineEdit ----------------------------- *)
(* faulty variant: the label refreshed without the suffix *)
LineUpdateCurrentValueNoSuffix(r) == [r EXCEPT !.label = r.sval]

LineUpdateCurrentValue(r) == [r EXCEPT !.label = AddSuffix(r, PyS(r.sval))]

(* Qt's QLineEdit.setText: truncates to maxLength, textChanged on change *)
LineEditSetText(r, s) ==
    LET t == IF Len(s) <= LineMaxLength THEN s ELSE SubSeq(s, 1, LineMaxLength)
    IN  IF t = r.sval THEN r
        ELSE LineUpdateCurrentValue([r EXCEPT !.sval = t])

LineSetValue(r, value) == Ok(LineEditSetText(r, PyStr(value)))

(* ------------------------------ QTimeEdit ----------------------------- *)
TimeUpdateCurrentValue(r) == [r EXCEPT !.label = TimeToString(r.tval, r.fmt)]

(* faulty variant: the final else takes the value for False *)
TimeInputCheckLax(r, value) ==
    CASE value.k = "dtime" -> Ok([r EXCEPT !.cur = [k |-> "qtime", v |-> value.v]])
      [] value.k = "qtime" -> Ok([r EXCEPT !.cur = value])
      [] OTHER -> Ok([r EXCEPT !.cur = Midnight])

TimeInputCheck(r, value) ==
    CASE value.k = "dtime" -> Ok([r EXCEPT !.cur = [k |-> "qtime", v |-> value.v]])
      [] value.k = "qtime" -> Ok([r EXCEPT !.cur = value])
      [] IsFalse(value) -> Ok([r EXCEPT !.cur = Midnight])
      [] OTHER -> Raise(r, "TypeError")

(* Qt's QTimeEdit.setTime: timeChanged only on change *)
TimeEditSetTime(r, t) ==
    IF t = r.tval THEN r
    ELSE TimeUpdateCurrentValue([r EXCEPT !.tval = t])

(* value.toString exists only on a QTime: a datetime.time or False that    *)
(* passed _inputCheck raises AttributeError on line 310                    *)
TimeSetValue(r, value) ==
    LET c == TimeInputCheck(r, value)
    IN  IF c.err # "none" THEN c
        ELSE IF value.k # "qtime" THEN Raise(c.r, "AttributeError")
        ELSE Ok(TimeEditSetTime(
                  [c.r EXCEPT !.label = TimeToString(value, "h:mm:ss a")], value))

TimeSetDisplayFormat(r, format_string) ==
    [r EXCEPT !.label = TimeToString(r.tval, format_string),
              !.fmt = format_string]

(* ------------------------------ QComboBox ----------------------------- *)
CurrentText(r) == IF r.idx = -1 THEN "" ELSE r.items[r.idx + 1]

ComboUpdateCurrentValue(r) == [r EXCEPT !.label = CurrentText(r)]

(* Qt's QComboBox.findText: index of the first exact match, else -1 *)
FindText(items, s) ==
    IF \E i \in 1..Len(items) : items[i] = s
    THEN (CHOOSE i \in 1..Len(items) :
             items[i] = s /\ \A j \in 1..(i - 1) : items[j] # s) - 1
    ELSE -1

(* Qt's QComboBox.setCurrentIndex: an index out of range selects nothing  *)
(* (-1); currentIndexChanged only on change                                *)
ComboBoxSetCurrentIndex(r, i) ==
    LET j == IF i \in 0..(Len(r.items) - 1) THEN i ELSE -1
    IN  IF j = r.idx THEN r
        ELSE ComboUpdateCurrentValue([r EXCEPT !.idx = j])

(* Qt's QComboBox.addItem: appends; an empty box selects the new item *)
ComboBoxAddItem(r, s) ==
    LET r1 == [r EXCEPT !.items = Append(r.items, s)]
    IN  IF Len(r.items) = 0
        THEN ComboUpdateCurrentValue([r1 EXCEPT !.idx = 0])
        ELSE r1

RemoveAt(seq, i) == SubSeq(seq, 1, i - 1) \o SubSeq(seq, i + 1, Len(seq))

(* Qt's QComboBox.removeItem: no-op out of range; the selection follows    *)
(* its item, or moves to the nearest remaining row when its item goes      *)
ComboBoxRemoveItem(r, i) ==
    IF i \notin 0..(Len(r.items) - 1) THEN r
    ELSE LET r1 == [r EXCEPT !.items = RemoveAt(r.items, i + 1)]
             n == Len(r1.items)
         IN  CASE r.idx = -1 \/ i > r.idx -> r1
               [] i < r.idx -> ComboUpdateCurrentValue([r1 EXCEPT !.idx = r.idx - 1])
               [] OTHER ->
                    IF n = 0 THEN ComboUpdateCurrentValue([r1 EXCEPT !.idx = -1])
                    ELSE ComboUpdateCurrentValue(
                           [r1 EXCEPT !.idx = IF r.idx < n - 1 THEN r.idx ELSE n - 1])

RECURSIVE StrAll(_)
StrAll(values) ==
    IF values = <<>> THEN <<>>
    ELSE <<PyStr(Head(values))>> \o StrAll(Tail(values))

(* _inputCheck: a list sets _current_value to str(values[0]) (IndexError   *)
(* on an empty list); any other value leaves _current_value unset          *)
ComboInputCheck(r, values) ==
    IF values.k = "list"
    THEN IF values.v = <<>> THEN [r |-> r, items |-> <<>>, err |-> "IndexError"]
         ELSE [r |-> [r EXCEPT !.cur = PyS(PyStr(values.v[1]))],
               items |-> StrAll(values.v), err |-> "none"]
    ELSE [r |-> r, items |-> <<PyStr(values)>>, err |-> "none"]

(* faulty variant: the value is shown but no item is selected *)
ComboSetValueLabelOnly(r, v) == Ok([r EXCEPT !.label = PyStr(v)])

ComboSetValue(r, v) ==
    LET value == PyStr(v)
        r1 == ComboBoxSetCurrentIndex(r, FindText(r.items, value))
    IN  Ok([r1 EXCEPT !.label = value])

ComboSetIndex(r, index) ==
    LET r1 == ComboBoxSetCurrentIndex(r, index)
    IN  [r1 EXCEPT !.label = CurrentText(r1)]

ComboAddItem(r, item) == ComboBoxAddItem(r, PyStr(item))

ComboRemoveItem(r, item) == ComboBoxRemoveItem(r, FindText(r.items, PyStr(item)))

RECURSIVE AddItems(_, _)
AddItems(r, items) ==
    IF items = <<>> THEN r
    ELSE AddItems(ComboBoxAddItem(r, Head(items)), Tail(items))

(* --------------------- getValue / setValue dispatch ------------------- *)
GetValue(r) ==
    CASE r.kind = "spin" -> PyInt(r.ival)
      [] r.kind = "line" -> PyS(r.sval)
      [] r.kind = "time" -> r.tval
      [] r.kind = "combo" -> PyS(CurrentText(r))

SetValue(r, value) ==
    CASE r.kind = "spin" -> SpinSetValue(r, value)
      [] r.kind = "line" -> LineSetValue(r, value)
      [] r.kind = "time" -> TimeSetValue(r, value)
      [] r.kind = "combo" -> ComboSetValue(r, value)

(* the history variable last: op is the operation, w the widget it acted   *)
(* on and kind its variant, a1..a3 its arguments (for a sweep a1/a2 hold the set of widgets it  *)
(* collapsed), err the exception it raised, n a count                      *)
(* ============================ program state =========================== *)
VARIABLES
    widgets,               \* widget id -> its record (see Blank)
    registry,              \* QClickEdit._registry, a list of widget ids
    top_widgets_modified,  \* QClickEdit._top_widgets_modified, read only by "in"
    mpe,                   \* top-level ref -> number of sweep wrappers around
                           \* its mousePressEvent
    windows,               \* window id -> "none" | "open" | "closed"
    pointer,               \* the widget whose input control is under the
                           \* pointer (underMouse()), 0 when there is none
    last                   \* the operation that ran last, and its outcome

vars == <<widgets, registry, top_widgets_modified, mpe, windows, pointer, last>>

WidgetIds == 1..MaxWidgets
WindowIds == 1..MaxWindows

Win(i) == [k |-> "win", v |-> i]
Wid(w) == [k |-> "wid", v |-> w]
Refs == {Win(i) : i \in WindowIds} \cup {Wid(w) : w \in WidgetIds}

Op(op, kind, w, a1, a2, a3, err, n) ==
    [op |-> op, kind |-> kind, w |-> w, a1 |-> a1, a2 |-> a2, a3 |-> a3,
     err |-> err, n |-> n]

InRegistry(reg, w) == \E i \in 1..Len(reg) : reg[i] = w

(* QApplication.topLevelWidgets(): open windows and parentless widgets *)
TopLevelWidgets(ws, wins) ==
    {Win(i) : i \in {j \in WindowIds : wins[j] = "open"}}
    \cup {Wid(w) : w \in {x \in WidgetIds :
                            ws[x].st \in {"live", "half"} /\ ws[x].parent = 0}}

(* the top-level window a widget belongs to: itself while it has no parent *)
WindowOf(ws, w) == IF ws[w].parent = 0 THEN Wid(w) ELSE Win(ws[w].parent)

InputMode(r) == r.st = "live" /\ ~r.inputHidden
LabelMode(r) == r.st = "live" /\ r.inputHidden /\ ~r.textHidden

(* faulty variant: the "not" before underMouse() dropped *)
CollapsedUnderMouse(ws, reg, ptr) ==
    {w \in WidgetIds : InRegistry(reg, w) /\ ~ws[w].inputHidden /\ ptr = w}

(* the widgets whose input control _freezeInputPrecheck finds visible and  *)
(* not under the pointer                                                   *)
Collapsed(ws, reg, ptr) ==
    {w \in WidgetIds : InRegistry(reg, w) /\ ~ws[w].inputHidden /\ ~(ptr = w)}

PySet(S) == [k |-> "set", v |-> S]

(* faulty variant: underMouse() is not asked *)
FreezeInputPrecheckAll(ws, reg, ptr) ==
    [w \in WidgetIds |->
        IF InRegistry(reg, w) /\ ~ws[w].inputHidden THEN ShowText(ws[w]) ELSE ws[w]]

(* _freezeInputPrecheck: _showText() on each of them *)
FreezeInputPrecheck(ws, reg, ptr) ==
    [w \in WidgetIds |->
        IF w \in Collapsed(ws, reg, ptr) THEN ShowText(ws[w]) ELSE ws[w]]

Init ==
    /\ widgets = [w \in WidgetIds |-> Blank]
    /\ registry = <<>>
    /\ top_widgets_modified = {}
    /\ mpe = [t \in Refs |-> 0]
    /\ windows = [i \in WindowIds |-> "none"]
    /\ pointer = 0
    /\ last = Op("init", "none", 0, PyNone, PyNone, PyNone, "none", 0)

(* ---------------------------- construction ---------------------------- *)
(* the subclass __init__ up to the call of QClickEdit.__init__:            *)
(* the value, prefix and suffix it passes on, or the error it raises       *)
SubclassInit(kind, a1, a2, a3) ==
    LET r0 == [Blank EXCEPT !.kind = kind]
    IN  CASE kind = "spin" ->
               [r |-> r0, value |-> a1, tof |-> a2, suffix |-> a3,
                items |-> <<>>, err |-> "none"]
          [] kind = "line" ->
               [r |-> [r0 EXCEPT !.cur = a1], value |-> a1, tof |-> a2,
                suffix |-> a3, items |-> <<>>, err |-> "none"]
          [] kind = "time" ->
               LET c == TimeInputCheck(r0, a1)
               IN  [r |-> [c.r EXCEPT !.fmt = a3.v], value |-> c.r.cur, tof |-> a2,
                    suffix |-> PyFalse, items |-> <<>>, err |-> c.err]
          [] kind = "combo" ->
               LET c == ComboInputCheck(r0, a1)
               IN  [r |-> c.r, value |-> c.r.cur, tof |-> PyFalse,
                    suffix |-> PyFalse, items |-> c.items,
                    err |-> IF c.err # "none" THEN c.err
                            ELSE IF c.r.cur = PyNone THEN "AttributeError"
                            ELSE "none"]

(* faulty variant: the suffix is not validated *)
PrefixOnlyOk(tof, suffix) == IsStr(tof) \/ IsFalse(tof)

(* the check of type_of_field and suffix at the head of QClickEdit.__init__ *)
PrefixSuffixOk(tof, suffix) ==
    /\ IsStr(tof) \/ IsFalse(tof)
    /\ IsStr(suffix) \/ IsFalse(suffix)

(* _createInputWidget then _createTextWidget on a fresh widget *)
CreateSubWidgets(r, suffix) ==
    LET r1 == [r EXCEPT !.st = "live", !.suffix = suffix, !.parent = 0,
                        !.inputHidden = TRUE, !.textHidden = FALSE]
    IN  [r1 EXCEPT !.label = AddSuffix(r1, GetValue(r1))]

(* the statements of the subclass __init__ after QClickEdit.__init__ *)
SubclassFinish(r, items) == IF r.kind = "combo" THEN AddItems(r, items) ELSE r

(* the patch loop: every top-level widget not yet patched gets one wrapper *)
PatchedMpe(m, done, tops) ==
    [t \in Refs |-> IF t \in tops /\ t \notin done THEN m[t] + 1 ELSE m[t]]

Construct(kind, a1, a2, a3, limit) ==
    LET sub == SubclassInit(kind, a1, a2, a3)
        early == IF sub.err # "none" THEN sub.err
                 ELSE IF ~PrefixSuffixOk(sub.tof, sub.suffix) THEN "TypeError"
                 ELSE "none"
    IN  IF early # "none"
        THEN /\ last' = Op("construct", kind, 0, a1, a2, a3, early, 0)
             /\ UNCHANGED <<widgets, registry, top_widgets_modified, mpe,
                            windows, pointer>>
        ELSE /\ \E w \in WidgetIds : w <= limit /\ widgets[w].st = "none"
             /\ LET w == CHOOSE x \in WidgetIds :
                           /\ widgets[x].st = "none"
                           /\ \A y \in 1..(x - 1) : widgets[y].st # "none"
                    r1 == CreateSubWidgets(sub.r, sub.suffix)
                    sv == SetValue(r1, sub.value)
                    ws1 == [widgets EXCEPT ![w] = sv.r]
                    tops == TopLevelWidgets(ws1, windows)
                IN  /\ registry' = Append(registry, w)
                    /\ IF sv.err # "none"
                       THEN /\ widgets' = [widgets EXCEPT
                                             ![w] = [sv.r EXCEPT !.st = "half"]]
                            /\ last' = Op("construct", kind, w, a1, a2, a3, sv.err, 0)
                            /\ UNCHANGED <<top_widgets_modified, mpe>>
                       ELSE /\ widgets' = [widgets EXCEPT
                                             ![w] = SubclassFinish(sv.r, sub.items)]
                            /\ top_widgets_modified' = top_widgets_modified \cup tops
                            /\ mpe' = PatchedMpe(mpe, top_widgets_modified, tops)
                            /\ last' = Op("construct", kind, w, a1, a2, a3, "none", 0)
                    /\ UNCHANGED <<windows, pointer>>

(* a new top-level window of the application (not a QClickEdit) *)
NewWindow ==
    /\ \E i \in WindowIds : windows[i] = "none"
    /\ LET i == CHOOSE x \in WindowIds :
                  windows[x] = "none" /\ \A y \in 1..(x - 1) : windows[y] # "none"
       IN  /\ windows' = [windows EXCEPT ![i] = "open"]
           /\ last' = Op("newWindow", "none", 0, Win(i), PyNone, PyNone, "none", 0)
    /\ UNCHANGED <<widgets, registry, top_widgets_modified, mpe, pointer>>

(* layout.addWidget(w) in a window: the widget gets a parent *)
AddToWindow(w, i) ==
    /\ widgets[w].st = "live" /\ widgets[w].parent = 0
    /\ windows[i] = "open"
    /\ widgets' = [widgets EXCEPT ![w].parent = i]
    /\ last' = Op("addToWindow", widgets[w].kind, w, Win(i), PyNone, PyNone, "none", 0)
    /\ UNCHANGED <<registry, top_widgets_modified, mpe, windows, pointer>>

RECURSIVE Remove(_, _)
Remove(seq, x) ==
    IF seq = <<>> THEN <<>>
    ELSE IF Head(seq) = x THEN Tail(seq)
    ELSE <<Head(seq)>> \o Remove(Tail(seq), x)

(* Qt destroys the widget: the destroyed signal removes it from _registry *)
Destroy(w) ==
    /\ widgets[w].st = "live"
    /\ widgets' = [widgets EXCEPT ![w] = Dead]
    /\ registry' = Remove(registry, w)
    /\ pointer' = IF pointer = w THEN 0 ELSE pointer
    /\ last' = Op("destroy", widgets[w].kind, w, PyNone, PyNone, PyNone, "none", 0)
    /\ UNCHANGED <<top_widgets_modified, mpe, windows>>

(* --------------------------- focus handling --------------------------- *)
PointerMove(p) ==
    /\ p # pointer
    /\ IF p = 0 THEN TRUE ELSE widgets[p].st = "live"
    /\ pointer' = p
    /\ last' = Op("pointerMove", "none", p, PyNone, PyNone, PyNone, "none", 0)
    /\ UNCHANGED <<widgets, registry, top_widgets_modified, mpe, windows>>

(* faulty variant: _showInputField first, the sweep after it *)
SetToEditSweepLast(w) ==
    /\ widgets[w].st = "live"
    /\ widgets' = FreezeInputPrecheck([widgets EXCEPT ![w] = ShowInputField(@)],
                                      registry, pointer)
    /\ last' = Op("setToEdit", widgets[w].kind, w, PySet(Collapsed(widgets, registry, pointer)),
                  PyNone, PyNone, "none", 0)
    /\ UNCHANGED <<registry, top_widgets_modified, mpe, windows, pointer>>

(* self.text.clicked -> _setToEdit: the sweep, then _showInputField *)
SetToEdit(w) ==
    /\ widgets[w].st = "live"
    /\ widgets' = [FreezeInputPrecheck(widgets, registry, pointer) EXCEPT
                     ![w] = ShowInputField(@)]
    /\ last' = Op("setToEdit", widgets[w].kind, w, PySet(Collapsed(widgets, registry, pointer)),
                  PyNone, PyNone, "none", 0)
    /\ UNCHANGED <<registry, top_widgets_modified, mpe, windows, pointer>>

(* focusOutEvent of the input control of w *)
FocusOut(w) ==
    /\ InputMode(widgets[w])
    /\ widgets' = FreezeInputPrecheck(widgets, registry, pointer)
    /\ last' = Op("focusOut", widgets[w].kind, w, PySet(Collapsed(widgets, registry, pointer)),
                  PyNone, PyNone, "none", 0)
    /\ UNCHANGED <<registry, top_widgets_modified, mpe, windows, pointer>>

(* a mouse press delivered to t.mousePressEvent: the original handler,     *)
(* then one sweep per wrapper (_topWidgetMousePressEvent)                  *)
PressTargets ==
    {Win(i) : i \in {j \in WindowIds : windows[j] = "open"}}
    \cup {Wid(w) : w \in {x \in WidgetIds : widgets[x].st = "live"}}

MousePress(t) ==
    /\ t \in PressTargets
    /\ widgets' = IF mpe[t] > 0
                  THEN FreezeInputPrecheck(widgets, registry, pointer)
                  ELSE widgets
    /\ last' = Op("mousePress", "none", 0, t,
                  PySet(IF mpe[t] > 0 THEN Collapsed(widgets, registry, pointer) ELSE {}),
                  PyNone, "none", mpe[t])
    /\ UNCHANGED <<registry, top_widgets_modified, mpe, windows, pointer>>

(* ------------------------ specification: focus ------------------------ *)
Prefix == PyS("Name")

ConstructArgs ==
    { <<"spin", PyInt(5), Prefix, PyS("C")>>,
      <<"time", QTimeOf(1, 0, 0), Prefix, PyS(DefaultTimeFormat)>> }

ConstructAny == \E a \in ConstructArgs : Construct(a[1], a[2], a[3], a[4], MaxWidgets)

Next ==
    \/ ConstructAny
    \/ NewWindow
    \/ \E w \in WidgetIds, i \in WindowIds : AddToWindow(w, i)
    \/ \E w \in WidgetIds : Destroy(w)
    \/ \E p \in 0..MaxWidgets : PointerMove(p)
    \/ \E w \in WidgetIds : SetToEdit(w)
    \/ \E w \in WidgetIds : FocusOut(w)
    \/ \E t \in Refs : MousePress(t)

Spec == Init /\ [][Next]_vars

(* ======================= focus coordination claims ==================== *)
Registered(w) == InRegistry(registry, w)

SameWindow(a, b) == WindowOf(widgets, a) = WindowOf(widgets, b)

(* C1: at most one registered widget per top-level window is in input mode *)
C1_AtMostOneInputPerWindow ==
    \A a, b \in WidgetIds :
        (a # b /\ Registered(a) /\ Registered(b)
            /\ InputMode(widgets[a]) /\ InputMode(widgets[b]))
        => ~SameWindow(a, b)

(* C2: activating the label of a puts into label mode every other          *)
(* registered widget of a's window that was in input mode with its input   *)
(* control away from the pointer                                           *)
C2_ActivationCollapsesOthers ==
    [][\A a \in WidgetIds :
          SetToEdit(a) =>
             \A b \in WidgetIds \ {a} :
                (Registered(b) /\ SameWindow(a, b)
                    /\ InputMode(widgets[b]) /\ pointer # b)
                => LabelMode(widgets'[b])]_vars

C2_Witness ==
    /\ last.op = "setToEdit"
    /\ \E b \in last.a1.v :
          /\ b # last.w
          /\ SameWindow(last.w, b)
          /\ widgets[last.w].parent # 0
          /\ LabelMode(widgets[b])
          /\ InputMode(widgets[last.w])

(* C3: after the input control of a widget in input mode loses focus, the  *)
(* widget is in label mode, wherever the pointer is                        *)
C3_FocusOutGivesLabelMode ==
    last.op = "focusOut" => LabelMode(widgets[last.w])

(* ========================== value operations ========================== *)
KindOf(w) == widgets[w].kind

SetValueOp(w, value) ==
    /\ widgets[w].st = "live"
    /\ LET res == SetValue(widgets[w], value)
       IN  /\ widgets' = [widgets EXCEPT ![w] = res.r]
           /\ last' = Op("setValue", KindOf(w), w, value, PyNone, PyNone, res.err, 0)
    /\ UNCHANGED <<registry, top_widgets_modified, mpe, windows, pointer>>

SetIndexOp(w, index) ==
    /\ widgets[w].st = "live" /\ KindOf(w) = "combo"
    /\ widgets' = [widgets EXCEPT ![w] = ComboSetIndex(@, index)]
    /\ last' = Op("setIndex", "combo", w, PyInt(index), PyNone, PyNone, "none", 0)
    /\ UNCHANGED <<registry, top_widgets_modified, mpe, windows, pointer>>

AddItemOp(w, item) ==
    /\ widgets[w].st = "live" /\ KindOf(w) = "combo"
    /\ Len(widgets[w].items) < MaxItems
    /\ widgets' = [widgets EXCEPT ![w] = ComboAddItem(@, item)]
    /\ last' = Op("addItem", "combo", w, item, PyNone, PyNone, "none", 0)
    /\ UNCHANGED <<registry, top_widgets_modified, mpe, windows, pointer>>

RemoveItemOp(w, item) ==
    /\ widgets[w].st = "live" /\ KindOf(w) = "combo"
    /\ widgets' = [widgets EXCEPT ![w] = ComboRemoveItem(@, item)]
    /\ last' = Op("removeItem", "combo", w, item, PyNone, PyNone, "none", 0)
    /\ UNCHANGED <<registry, top_widgets_modified, mpe, windows, pointer>>

RemoveIndexOp(w, index) ==
    /\ widgets[w].st = "live" /\ KindOf(w) = "combo"
    /\ widgets' = [widgets EXCEPT ![w] = ComboBoxRemoveItem(@, index)]
    /\ last' = Op("removeIndex", "combo", w, PyInt(index), PyNone, PyNone, "none", 0)
    /\ UNCHANGED <<registry, top_widgets_modified, mpe, windows, pointer>>

SetDisplayFormatOp(w, format_string) ==
    /\ widgets[w].st = "live" /\ KindOf(w) = "time"
    /\ widgets' = [widgets EXCEPT ![w] = TimeSetDisplayFormat(@, format_string)]
    /\ last' = Op("setDisplayFormat", "time", w, PyS(format_string), PyNone, PyNone,
                  "none", 0)
    /\ UNCHANGED <<registry, top_widgets_modified, mpe, windows, pointer>>

(* the user changes the shown input control: Qt changes the value and      *)
(* emits the change signal wired in _createInputWidget                     *)
UserEdited(r, x) ==
    CASE r.kind = "spin" -> SpinBoxSetValue(r, x.v)
      [] r.kind = "line" -> LineEditSetText(r, x.v)
      [] r.kind = "time" -> TimeEditSetTime(r, x)
      [] r.kind = "combo" -> ComboBoxSetCurrentIndex(r, x.v)

SpinInputs == {PyInt(-1), PyInt(0), PyInt(7), PyInt(99), PyInt(100)}
RECURSIVE Doubled(_, _)
Doubled(s, n) == IF n = 0 THEN s ELSE Doubled(s \o s, n - 1)

(* a text one character longer than the line edit's maxLength *)
LongText == Doubled("ab", 14)

LineInputs == {PyS(""), PyS("ab"), PyInt(7), PyNone, PyTrue, PyS(LongText)}
TimeInputs == {Midnight, QTimeOf(13, 5, 9), DTimeOf(1, 0, 0), PyFalse, PyInt(3), PyNone}
ComboInputs == {PyS("a"), PyS("b"), PyInt(23)}
Formats == {DefaultTimeFormat, "HH:mm"}
Suffixes == {PyFalse, PyS("C"), PyS("")}

RECURSIVE SeqsUpTo(_, _)
SeqsUpTo(S, n) ==
    IF n = 0 THEN {<<>>}
    ELSE LET shorter == SeqsUpTo(S, n - 1)
         IN  shorter \cup {Append(q, x) : q \in shorter, x \in S}

ComboLists == {PyList(q) : q \in SeqsUpTo(ComboInputs, MaxItems)}

InputsFor(kind) ==
    CASE kind = "spin" -> SpinInputs
      [] kind = "line" -> LineInputs
      [] kind = "time" -> TimeInputs
      [] kind = "combo" -> ComboInputs
      [] OTHER -> {}

(* what a user can enter in the shown control *)
EditsFor(r) ==
    CASE r.kind = "spin" -> {x \in SpinInputs : x.v >= SpinMin /\ x.v <= SpinMax}
      [] r.kind = "line" -> {x \in LineInputs : x.k = "str"} \cup {PyS("x")}
      [] r.kind = "time" -> {x \in TimeInputs : x.k = "qtime"}
      [] r.kind = "combo" -> {PyInt(i) : i \in 0..(Len(r.items) - 1)}
      [] OTHER -> {}

UserEdit(w, x) ==
    /\ InputMode(widgets[w])
    /\ x \in EditsFor(widgets[w])
    /\ widgets' = [widgets EXCEPT ![w] = UserEdited(@, x)]
    /\ last' = Op("userEdit", KindOf(w), w, x, PyNone, PyNone, "none", 0)
    /\ UNCHANGED <<registry, top_widgets_modified, mpe, windows, pointer>>

(* ------------------------ specification: values ----------------------- *)
(* one widget of any variant, built from any value, then any sequence of   *)
(* value operations, user edits and mode switches                          *)
ValueArgs ==
    {<<"spin", v, PyFalse, sfx>> : v \in SpinInputs, sfx \in Suffixes}
    \cup {<<"line", v, PyFalse, sfx>> : v \in LineInputs, sfx \in Suffixes}
    \cup {<<"time", v, Prefix, PyS(f)>> : v \in TimeInputs, f \in Formats}
    \cup {<<"combo", v, PyFalse, PyFalse>> : v \in ComboLists \cup ComboInputs}

ConstructValue == \E a \in ValueArgs : Construct(a[1], a[2], a[3], a[4], 1)

NextValue ==
    \/ ConstructValue
    \/ \E w \in WidgetIds : \E v \in InputsFor(KindOf(w)) : SetValueOp(w, v)
    \/ \E w \in WidgetIds, i \in -1..MaxItems : SetIndexOp(w, i)
    \/ \E w \in WidgetIds, x \in ComboInputs : AddItemOp(w, x)
    \/ \E w \in WidgetIds, x \in ComboInputs : RemoveItemOp(w, x)
    \/ \E w \in WidgetIds, i \in 0..MaxItems : RemoveIndexOp(w, i)
    \/ \E w \in WidgetIds, f \in Formats : SetDisplayFormatOp(w, f)
    \/ \E w \in WidgetIds : \E x \in EditsFor(widgets[w]) : UserEdit(w, x)
    \/ \E w \in WidgetIds : SetToEdit(w)
    \/ \E w \in WidgetIds : FocusOut(w)

SpecValue == Init /\ [][NextValue]_vars

(* ============================ value claims ============================ *)
SuffixSet(r) == r.suffix.k = "str" /\ r.suffix.v # ""

WithSuffix(r, text) == IF SuffixSet(r) THEN text \o " " \o r.suffix.v ELSE text

(* the display rendering of the value getValue() returns *)
Rendering(r) ==
    CASE r.kind = "spin" -> ToString(GetValue(r).v)
      [] r.kind = "line" -> GetValue(r).v
      [] r.kind = "time" -> TimeToString(GetValue(r), r.fmt)
      [] r.kind = "combo" -> GetValue(r).v

(* C4: in label mode the label text is the rendering of the current value  *)
(* followed by the suffix when one is set                                  *)
C4_LabelMatchesValue ==
    \A w \in WidgetIds :
        LabelMode(widgets[w]) =>
            widgets[w].label = WithSuffix(widgets[w], Rendering(widgets[w]))

SetValueDone(kind) ==
    last.op = "setValue" /\ last.kind = kind /\ widgets[last.w].st = "live"

(* C5: numeric setValue(n) then getValue() returns n, for every integer n *)
C5_NumericSetGet ==
    (SetValueDone("spin") /\ last.a1.k = "int")
    => (last.err = "none" /\ GetValue(widgets[last.w]) = last.a1)

(* C5 as amended: getValue() returns n when n lies in the spin box's range *)
(* 0..99, and the nearest end of the range otherwise                       *)
C5_NumericSetGetClamped ==
    (SetValueDone("spin") /\ last.a1.k = "int")
    => /\ last.err = "none"
       /\ GetValue(widgets[last.w]) =
             PyInt(IF last.a1.v < 0 THEN 0 ELSE IF last.a1.v > 99 THEN 99 ELSE last.a1.v)

C5_Witness ==
    /\ SetValueDone("spin")
    /\ last.a1 = PyInt(100)
    /\ GetValue(widgets[last.w]) = PyInt(99)

(* C6: choice setValue(v) then getValue() returns str(v), whatever the     *)
(* items and the selection were                                            *)
C6_ChoiceSetGet ==
    SetValueDone("combo")
    => (last.err = "none" /\ GetValue(widgets[last.w]) = PyS(PyStr(last.a1)))

HasItem(r, text) == \E i \in 1..Len(r.items) : r.items[i] = text

(* C6 as amended: getValue() returns str(v) when str(v) is one of the      *)
(* dropdown's items, and the empty string (nothing selected) otherwise     *)
C6_ChoiceSetGetAmongItems ==
    SetValueDone("combo")
    => /\ last.err = "none"
       /\ GetValue(widgets[last.w]) =
             IF HasItem(widgets[last.w], PyStr(last.a1))
             THEN PyS(PyStr(last.a1)) ELSE PyS("")

C6_Witness ==
    /\ SetValueDone("combo")
    /\ last.a1 = PyInt(23)
    /\ widgets[last.w].items = <<"a", "23">>
    /\ GetValue(widgets[last.w]) = PyS("23")

(* C7: text setValue(v) then getValue() returns str(v), and the label text *)
(* is that string followed by the suffix when one is set                   *)
C7_TextSetGet ==
    SetValueDone("line")
    => /\ last.err = "none"
       /\ GetValue(widgets[last.w]) = PyS(PyStr(last.a1))
       /\ widgets[last.w].label = WithSuffix(widgets[last.w], PyStr(last.a1))

(* C7 as amended: getValue() returns str(v) cut to the line edit's         *)
(* maxLength of 32767 characters, and the label text is that string,       *)
(* a space and the suffix when one is set                                  *)
C7_TextSetGetTruncated ==
    SetValueDone("line")
    => LET text == PyStr(last.a1)
           kept == IF Len(text) <= 32767 THEN text ELSE SubSeq(text, 1, 32767)
       IN  /\ last.err = "none"
           /\ GetValue(widgets[last.w]) = PyS(kept)
           /\ widgets[last.w].label = WithSuffix(widgets[last.w], kept)

C7_Witness ==
    /\ SetValueDone("line")
    /\ last.a1 = PyInt(7)
    /\ widgets[last.w].suffix = PyS("C")
    /\ widgets[last.w].label = "7 C"
    /\ GetValue(widgets[last.w]) = PyS("7")

IsTimeOfDay(x) == x.k \in {"qtime", "dtime"}

TimeOfDay(x) == IF IsFalse(x) THEN Midnight ELSE [k |-> "qtime", v |-> x.v]

(* C8: the time constructor and setValue accept a datetime.time, a QTime   *)
(* or False without error, and getValue() then returns that time of day    *)
(* (midnight for False)                                                    *)
C8_TimeAcceptsTimeOfDayOrFalse ==
    (/\ last.op \in {"construct", "setValue"}
     /\ last.kind = "time"
     /\ IsTimeOfDay(last.a1) \/ IsFalse(last.a1))
    => /\ last.err = "none"
       /\ last.w # 0
       /\ GetValue(widgets[last.w]) = TimeOfDay(last.a1)

(* C9: the choice constructor accepts a single value or a list: the items  *)
(* are the string forms of the entries in order, the selected value and    *)
(* the label text the string form of the first                             *)
C9_ChoiceConstructor ==
    (/\ last.op = "construct"
     /\ last.kind = "combo"
     /\ last.a1 # PyList(<<>>))
    => LET entries == IF last.a1.k = "list" THEN last.a1.v ELSE <<last.a1>>
       IN  /\ last.err = "none"
           /\ last.w # 0
           /\ widgets[last.w].items = StrAll(entries)
           /\ GetValue(widgets[last.w]) = PyS(PyStr(entries[1]))
           /\ widgets[last.w].label = PyStr(entries[1])

(* --------------------- specification: construction ------------------- *)
(* constructions of every variant, valid and invalid, among live widgets   *)
CtorArgs ==
    { <<"spin", PyInt(5), Prefix, PyS("C")>>,
      <<"spin", PyInt(5), PyInt(1), PyFalse>>,
      <<"spin", PyInt(5), PyFalse, PyNone>>,
      <<"spin", PyS("x"), PyFalse, PyFalse>>,
      <<"line", PyS("ab"), PyFalse, PyS("Sr.")>>,
      <<"line", PyS("ab"), PyTrue, PyFalse>>,
      <<"line", PyS("ab"), Prefix, PyInt(0)>>,
      <<"time", QTimeOf(1, 0, 0), Prefix, PyS(DefaultTimeFormat)>>,
      <<"time", Midnight, PyInt(1), PyS(DefaultTimeFormat)>>,
      <<"time", PyInt(3), PyFalse, PyS(DefaultTimeFormat)>>,
      <<"combo", PyList(<<PyS("a"), PyInt(23)>>), PyFalse, PyFalse>>,
      <<"combo", PyS("a"), PyFalse, PyFalse>> }

ConstructCtor == \E a \in CtorArgs : Construct(a[1], a[2], a[3], a[4], MaxWidgets)

NextCtor ==
    \/ ConstructCtor
    \/ NewWindow
    \/ \E w \in WidgetIds : Destroy(w)
    \/ \E w \in WidgetIds : SetToEdit(w)

SpecCtor == Init /\ [][NextCtor]_vars

(* ========================= construction claims ======================== *)
(* an argument that was given (is not the default False) and is no string *)
NotStringGiven(x) == x.k # "str" /\ ~(x.k = "bool" /\ x.v = FALSE)

(* the prefix of every variant that takes one, the suffix of the numeric   *)
(* and text variants                                                       *)
BadPrefixOrSuffix(kind, a2, a3) ==
    \/ kind \in {"spin", "line", "time"} /\ NotStringGiven(a2)
    \/ kind \in {"spin", "line"} /\ NotStringGiven(a3)

(* C10: a construction with a prefix or suffix that is given and is no     *)
(* string fails with TypeError and leaves the registry, the list of        *)
(* patched top-level windows and every widget's mode as they were          *)
C10_BadPrefixSuffixRejected ==
    [][\A a \in CtorArgs :
          (BadPrefixOrSuffix(a[1], a[3], a[4])
              /\ Construct(a[1], a[2], a[3], a[4], MaxWidgets))
          => /\ last'.err = "TypeError"
             /\ registry' = registry
             /\ top_widgets_modified' = top_widgets_modified
             /\ mpe' = mpe
             /\ \A w \in WidgetIds :
                   /\ widgets'[w].st = widgets[w].st
                   /\ widgets'[w].inputHidden = widgets[w].inputHidden
                   /\ widgets'[w].textHidden = widgets[w].textHidden]_vars

C10_Witness ==
    /\ last.op = "construct"
    /\ last.kind = "line"
    /\ NotStringGiven(last.a3)
    /\ last.err = "TypeError"
    /\ Len(registry) = 2
    /\ \E w \in WidgetIds : InputMode(widgets[w])
    /\ \E w \in WidgetIds : LabelMode(widgets[w])

(* =========================== time value claims ======================== *)
(* a value the time variant does not take: no time of day and not False *)
NotTimeGiven(x) == ~IsTimeOfDay(x) /\ ~IsFalse(x)

(* C11: the time variant rejects with TypeError a value that is neither a  *)
(* time of day nor False, in the constructor and in setValue; a rejected   *)
(* setValue leaves the time value, the label text and the mode unchanged,  *)
(* a rejected construction leaves the registry unchanged                   *)
C11_TimeRejectsOtherValues ==
    [][\A v \in TimeInputs :
          NotTimeGiven(v) =>
             /\ \A w \in WidgetIds :
                   (KindOf(w) = "time" /\ SetValueOp(w, v))
                   => /\ last'.err = "TypeError"
                      /\ widgets'[w].tval = widgets[w].tval
                      /\ widgets'[w].cur = widgets[w].cur
                      /\ widgets'[w].label = widgets[w].label
                      /\ widgets'[w].inputHidden = widgets[w].inputHidden
                      /\ widgets'[w].textHidden = widgets[w].textHidden
             /\ \A f \in Formats :
                   Construct("time", v, Prefix, PyS(f), 1)
                   => /\ last'.err = "TypeError"
                      /\ registry' = registry
                      /\ widgets' = widgets]_vars

C11_Witness ==
    /\ last.op = "setValue"
    /\ last.kind = "time"
    /\ last.a1 = PyInt(3)
    /\ last.err = "TypeError"
    /\ InputMode(widgets[last.w])
    /\ widgets[last.w].tval = QTimeOf(13, 5, 9)
    /\ widgets[last.w].label = "13:05"

(* ========================= window patching claims ===================== *)
(* C12: once a widget has been constructed, every top-level window is      *)
(* wrapped exactly once, whatever the order of window creations and        *)
(* constructions, so a press on a window runs the sweep exactly once       *)
C12_EveryWindowPatchedOnce ==
    registry # <<>> =>
       /\ \A t \in TopLevelWidgets(widgets, windows) : mpe[t] = 1
       /\ (last.op = "mousePress" /\ last.a1.k = "win") => last.n = 1

(* C13: after a mouse press on any top-level window, also one created      *)
(* after the most recent construction, every widget still in input mode    *)
(* has its input control under the pointer                                 *)
C13_PressOnAnyWindowSweeps ==
    (last.op = "mousePress" /\ last.a1.k = "win")
    => \A w \in WidgetIds :
          (Registered(w) /\ InputMode(widgets[w])) => pointer = w

(* ============================ registry claims ========================= *)
Occurrences(seq, x) == Cardinality({i \in 1..Len(seq) : seq[i] = x})

(* C14: the registry holds each live, fully constructed widget exactly     *)
(* once and nothing else, after any constructions (also ones that fail     *)
(* part-way) and destructions                                              *)
C14_RegistryIsLiveWidgets ==
    \A w \in WidgetIds :
        Occurrences(registry, w) = IF widgets[w].st = "live" THEN 1 ELSE 0

(* ============================== sweep claims ========================== *)
(* C15: the sweep run by activating the label of a widget collapses only   *)
(* widgets of that widget's top-level window                               *)
C15_ActivationSweepsOwnWindowOnly ==
    last.op = "setToEdit"
    => \A b \in last.a1.v \ {last.w} : SameWindow(last.w, b)

(* ============================== mode claims =========================== *)
(* C16: a newly constructed widget is in label mode, and activating the    *)
(* label of a widget leaves that widget in input mode, label hidden and    *)
(* input control shown, wherever the pointer is                            *)
C16_NewIsLabelActivatedIsInput ==
    /\ (last.op = "construct" /\ last.err = "none") => LabelMode(widgets[last.w])
    /\ last.op = "setToEdit"
          => (InputMode(widgets[last.w]) /\ widgets[last.w].textHidden)

C16_Witness ==
    /\ last.op = "setToEdit"
    /\ pointer # 0
    /\ pointer # last.w
    /\ last.w \in last.a1.v
    /\ InputMode(widgets[last.w])
    /\ widgets[last.w].textHidden

(* C17: every fully constructed widget shows exactly one of its label and  *)
(* its input control                                                       *)
C17_ExactlyOneShown ==
    \A w \in WidgetIds :
        widgets[w].st = "live" => (widgets[w].textHidden # widgets[w].inputHidden)

C17_Witness ==
    /\ last.op = "focusOut"
    /\ last.w \in last.a1.v
    /\ widgets[last.w].inputHidden
    /\ ~widgets[last.w].textHidden

(* a step that runs the sweep: the activation of a's label when a is a     *)
(* widget, a focus loss or a mouse press when a is 0                       *)
SweepStep(a) ==
    IF a = 0
    THEN (\E w \in WidgetIds : FocusOut(w)) \/ (\E t \in Refs : MousePress(t))
    ELSE SetToEdit(a)

(* C18: a sweep changes modes only: a widget whose input control is under  *)
(* the pointer stays in input mode, a widget in label mode stays as it is  *)
(* (but for the activated one), and no widget's value, label text or       *)
(* suffix and not the registry changes                                     *)
C18_SweepChangesOnlyModes ==
    [][\A a \in 0..MaxWidgets :
          SweepStep(a) =>
             /\ registry' = registry
             /\ \A w \in WidgetIds :
                   /\ widgets'[w] = [widgets[w] EXCEPT
                                       !.textHidden = widgets'[w].textHidden,
                                       !.inputHidden = widgets'[w].inputHidden]
                   /\ (InputMode(widgets[w]) /\ pointer = w)
                         => InputMode(widgets'[w])
                   /\ (LabelMode(widgets[w]) /\ w # a)
                         => widgets'[w] = widgets[w]]_vars

C18_Witness ==
    /\ last.op = "mousePress"
    /\ pointer # 0
    /\ InputMode(widgets[pointer])
    /\ \E b \in last.a2.v :
          /\ b # pointer
          /\ LabelMode(widgets[b])
          /\ widgets[b].label = "5 C"
          /\ GetValue(widgets[b]) = PyInt(5)

(* ============================ time label claim ======================== *)
(* C19: the label text of a time widget is always its current time in its  *)
(* current display format, the constructor's or that of the most recent    *)
(* setDisplayFormat                                                        *)
C19_TimeLabelInDisplayFormat ==
    \A w \in WidgetIds :
        (widgets[w].st = "live" /\ KindOf(w) = "time")
        => widgets[w].label = TimeToString(widgets[w].tval, widgets[w].fmt)

============================================================================
